---- MODULE Spec2Model ----
(***************************************************************************)
(* Model of the off-chain ticket issuance and listing client               *)
(* (src/mint_ticket.js): RPC failover, balance guarantee, content uploads, *)
(* asset minting, market-record registration and resale listing.           *)
(*                                                                         *)
(* Every `await` of the source is one step of the model; the outcome of a  *)
(* remote call is chosen nondeterministically among the outcomes the       *)
(* remote party can produce.                                               *)
(*                                                                         *)
(* Amounts.  Ledger amounts are integers (lamports).  An amount the caller *)
(* passes as a JavaScript number of SOL is represented exactly, as an      *)
(* integer number of 1/SubUnits lamport, so that a value between two       *)
(* lamports exists and `new BN(x * LAMPORTS_PER_SOL)` has something to     *)
(* truncate.  Binary floating-point rounding error is not represented.     *)
(***************************************************************************)
EXTENDS Integers, Sequences, FiniteSets, TLC

\* ---------------------------------------------------------------- bounds
MaxOps   == 2      \* top-level operations started in one behaviour
MaxMints == 2      \* asset identities generateSigner can hand out
SubUnits == 2      \* resolution of a caller-supplied amount: 1/SubUnits lamport
MaxPrice == 8      \* largest caller-supplied listing price, in lamports

\* ------------------------------------------------------ program constants
LAMPORTS_PER_SOL == 1000000000
AIRDROP_SOL      == 2

None == "none"

PROGRAM_ID   == "GRb8e96kJJvofUenMx6QM7mRu9mwKCdzY6KC4PGTD3KL"
OWNER_PUBKEY == "EwJ3knEKtjhEhoNRZ2NFjxMHEo7ceJKPGkqgL3jBSnjC"
\* a public key other than OWNER_PUBKEY
WalletKey    == "wallet"
\* public keys the keypair read from KEYPAIR_PATH can have
Wallets      == {OWNER_PUBKEY, WalletKey}

LocalUrl   == "http://localhost:8899"
MainnetUrl == "https://api.mainnet-beta.solana.com"
DevnetUrl  == "https://api.devnet.solana.com"
Helius1Url == "https://devnet.helius-rpc.com"
Helius2Url == "https://rpc-devnet.helius.xyz"

\* values the environment variable RPC_URL takes in the model
RpcUrls == {LocalUrl, MainnetUrl, Helius2Url}

\* RPC_URL.includes("127.0.0.1") || RPC_URL.includes("localhost")
IsLocalnet(url) == url \in {LocalUrl, "http://127.0.0.1:8899"}

\* createRobustConnection: the ordered candidate list
rpcEndpoints(rpcUrl) == <<rpcUrl, DevnetUrl, Helius1Url, Helius2Url>>

\* createRobustConnection: default of the maxRetries parameter
maxRetries == 3

\* a retry budget of two attempts
UploadRetries_Two == 3 - 1

\* uploadToIPFS / uploadJSONToIPFS: let retries = 3
UploadRetries == 3

\* a retry budget of four balance reads
BalanceRetries_Four == 3 + 1

\* ensureSufficientBalance: let retries = 3
BalanceRetries == 3

\* mintTicketWithSmartContract: ensureSufficientBalance(connection, key, 0.05),
\* in lamports
MinBalanceLamports == LAMPORTS_PER_SOL \div 20

\* sol.toFixed(4): the balance rendered to four decimals, in units of 1e-4 SOL
ToFixed4(lamports) == (lamports + (LAMPORTS_PER_SOL \div 20000)) \div (LAMPORTS_PER_SOL \div 10000)

\* new BN(x * LAMPORTS_PER_SOL) for an amount x of SOL: bn.js keeps the
\* integer part of a number
BNLamports(x) == x \div SubUnits

\* PublicKey.findProgramAddressSync(seeds, programId): the address is a hash
\* of the program id and of the seeds in their order; the hash is taken to be
\* free of collisions, so the address is told by what goes into it
findProgramAddressSync(seeds, programId) == <<programId>> \o seeds

\* function getTicketPDA: seeds "ticket", organizer, mint
getTicketPDA(organizerPublicKey, mintAddress, programId) ==
    findProgramAddressSync(<<"ticket", organizerPublicKey, mintAddress>>, programId)

\* the derivation with the key of OWNER_PUBKEY in the place of the wallet's
RegisterPda_OwnerKey(walletKey, mintAddress) ==
    findProgramAddressSync(<<"ticket", "EwJ3knEKtjhEhoNRZ2NFjxMHEo7ceJKPGkqgL3jBSnjC",
                             mintAddress>>, PROGRAM_ID)

\* createSmartContractTicket: the derivation written out in its body, seeds
\* "ticket", wallet.publicKey, mintPubkey
RegisterPda(walletKey, mintAddress) ==
    findProgramAddressSync(<<"ticket", walletKey, mintAddress>>, PROGRAM_ID)

\* client.ts: seeds "ticket", provider.wallet.publicKey, mintPubkey, under the
\* PROGRAM_ID of client.ts, which is the same key
ClientTicketPda(walletKey, mintPubkey) ==
    findProgramAddressSync(<<"ticket", walletKey, mintPubkey>>, PROGRAM_ID)

\* a gateway URI that does not name the content identifier it was given
GatewayUrl_OtherCid(cid) == <<"PINATA_GATEWAY", "ipfs", "cidA">>

\* `https://${PINATA_GATEWAY}/ipfs/${cid}`
GatewayUrl(cid) == <<"PINATA_GATEWAY", "ipfs", cid>>

Mints == 1..MaxMints
Cids  == {"cidA", "cidB"}
PDAs  == {getTicketPDA(o, m, PROGRAM_ID) : o \in Wallets, m \in Mints}

\* absent values, of the type of the value they stand for
NoAccount == [exists |-> FALSE]
NoResult  == [kind |-> "none"]
NoUri     == <<>>
NoMint    == 0
NoAmount  == -1

\* ------------------------------------------------------------------ state
VARIABLES
    RPC_URL,      \* process.env.RPC_URL
    PINATA_JWT,   \* whether process.env.PINATA_JWT is set
    wallet,       \* public key of the keypair read from KEYPAIR_PATH
    ledger,       \* the program's accounts: record address -> Ticket or NoAccount
    balance,      \* lamports held by the wallet
    nfts,         \* asset identities that have been minted
    last_mint,    \* content of last_mint.json
    nextMint,     \* the identity the next generateSigner returns
    opsStarted,   \* top-level operations started so far
    op,           \* the top-level operation in progress or last finished
    pc,           \* its position
    args,         \* its arguments
    conn,         \* createRobustConnection: endpoint index, attempt, probes made,
                  \* and the connection it returned
    bal,          \* ensureSufficientBalance: retries, lamports, requests made
    up,           \* the upload call in progress: retries, requests made, the
                  \* content identifier of the last response that had one; the
                  \* URIs and the metadata document of the run
    mint,         \* mintTicketWithSmartContract: the generated mint
    reg,          \* createSmartContractTicket invocations
    lst,          \* listTicketForResale: ticketData, submitted price
    calls,        \* mint calls and instructions submitted by the operation
    did,          \* kinds of remote request the operation has made, and
                  \* "last_mint.json" once it wrote the pointer file
    result        \* what the operation returned or threw

env    == <<RPC_URL, PINATA_JWT, wallet>>
world  == <<ledger, balance, nfts, last_mint, nextMint>>
vars   == <<RPC_URL, PINATA_JWT, wallet, ledger, balance, nfts, last_mint, nextMint,
           opsStarted, op, pc, args, conn, bal, up, mint, reg, lst, calls, did,
           result>>

RegIds == {1, 2}

\* balances the wallet starts with: empty, just under 0.05 SOL, exactly 0.05 SOL
InitBalances == {0, MinBalanceLamports - 40000, MinBalanceLamports}

\* arguments of mintTicketWithSmartContract; an absent argument is None, and a
\* price of 0 is as absent as a missing one (`!price`)
IssueArg(price, resaleAllowed, maxMarkup) ==
    [imagePath |-> "ticket.png", name |-> "VIP", description |-> "backstage",
     price |-> price, resaleAllowed |-> resaleAllowed, maxMarkup |-> maxMarkup]
ValidIssueArgs ==
    { IssueArg(4 * SubUnits + 1, TRUE, 25),
      IssueArg(5 * SubUnits, TRUE, 50),
      IssueArg(4 * SubUnits + 1, FALSE, 25) }
IssueArgs ==
    ValidIssueArgs \cup
    { [IssueArg(4 * SubUnits + 1, TRUE, 25) EXCEPT !.imagePath = "missing.png"],
      [IssueArg(4 * SubUnits + 1, TRUE, 25) EXCEPT !.imagePath = None],
      [IssueArg(4 * SubUnits + 1, TRUE, 25) EXCEPT !.name = None],
      [IssueArg(4 * SubUnits + 1, TRUE, 25) EXCEPT !.description = None],
      [IssueArg(4 * SubUnits + 1, TRUE, 25) EXCEPT !.price = 0] }

\* fs.existsSync(imagePath)
ImageExists(path) == path = "ticket.png"

\* listing prices a caller may ask for, in 1/SubUnits lamport
NewPrices == (4 * SubUnits)..(MaxPrice * SubUnits)

NoCalls == [mint |-> 0, create |-> 0, list |-> 0, via |-> {}]
NoConn  == [endpoint |-> 0, attempt |-> 0, probes |-> 0, connection |-> None]
NoBal   == [retries |-> 0, lamports |-> NoAmount, reads |-> 0, airdrops |-> 0,
            returned |-> FALSE]
NoUp    == [retries |-> 0, requests |-> 0, cid |-> None, imageUri |-> NoUri,
            metadata |-> NoResult, metadataUri |-> NoUri]
NoReg   == [pc |-> "idle", mint |-> NoMint, price |-> 0, resaleAllowed |-> FALSE,
            maxMarkup |-> 0, ticketPda |-> NoUri, found |-> FALSE, pre |-> NoAccount,
            creates |-> 0, ret |-> NoResult]
NoLst   == [ticketData |-> NoAccount, submitted |-> NoAmount]

Init ==
    /\ RPC_URL \in RpcUrls
    /\ PINATA_JWT \in BOOLEAN
    /\ wallet = OWNER_PUBKEY
    /\ ledger = [a \in PDAs |-> NoAccount]
    /\ balance \in InitBalances
    /\ nfts = {}
    /\ last_mint = NoMint
    /\ nextMint = 1
    /\ opsStarted = 0
    /\ op = None
    /\ pc = "idle"
    /\ args = NoResult
    /\ conn = NoConn
    /\ bal = NoBal
    /\ up = NoUp
    /\ mint = NoMint
    /\ reg = [i \in RegIds |-> NoReg]
    /\ lst = NoLst
    /\ calls = NoCalls
    /\ did = {}
    /\ result = NoResult

Idle == pc \in {"idle", "done", "failed"}

\* a ledger call sent to the endpoint: the endpoint joins those the operation
\* has sent ledger calls to
SentTo(endpoint) == [calls EXCEPT !.via = @ \cup {endpoint}]

\* throw: the operation ends with the error e
Fail(e) == pc' = "failed" /\ result' = e

\* a fresh start of the locals of an operation
ResetLocals ==
    /\ conn' = NoConn
    /\ bal' = NoBal
    /\ up' = NoUp
    /\ mint' = NoMint
    /\ lst' = NoLst
    /\ calls' = NoCalls
    /\ did' = {}
    /\ result' = NoResult

\* ------------------------------------------------- the ledger program
\* The program's rules, as its interface describes them: createTicket writes
\* a new record at the derived address and fails when one is there already;
\* listTicket changes price and isListed under the resale and markup rules.

NewTicket(organizer, price, resaleAllowed, maxMarkup, mintKey) ==
    [exists |-> TRUE, owner |-> organizer, price |-> price,
     resaleAllowed |-> resaleAllowed, maxMarkup |-> maxMarkup,
     originalPrice |-> price, isListed |-> FALSE, mint |-> mintKey]

ProgramCreateVerdict(account) ==
    IF account.exists THEN "AccountAlreadyInUse" ELSE "ok"

\* the markup rule in the program's integer arithmetic
ProgramMaxPrice(t) == t.originalPrice + (t.originalPrice * t.maxMarkup) \div 100

ProgramListVerdict(t, signer, newPrice) ==
    IF ~t.exists THEN "AccountNotInitialized"
    ELSE IF ~t.resaleAllowed THEN "ResaleNotAllowed"
    ELSE IF t.owner # signer THEN "NotTicketOwner"
    ELSE IF newPrice > ProgramMaxPrice(t) THEN "ExceedsMaxMarkup"
    ELSE "ok"

\* --------------------------------------------- createRobustConnection
InitConn == [endpoint |-> 1, attempt |-> 1, probes |-> 0, connection |-> None]

\* failover that leaves an endpoint after its first failed probe; the last
\* endpoint keeps its retries
NextCandidate_MoveOnAtOnce(c) ==
    IF c.endpoint < 4
    THEN [c EXCEPT !.endpoint = @ + 1, !.attempt = 1, !.probes = @ + 1]
    ELSE [c EXCEPT !.attempt = @ + 1, !.probes = @ + 1]

\* failover that goes back and forth between the first two attempts on one
\* endpoint and never leaves it
NextCandidate_NeverGivesUp(c) ==
    [c EXCEPT !.attempt = IF @ = 1 THEN 2 ELSE 1]

\* the two loops after a failed probe that did not throw: the next attempt
\* on the same endpoint, or the first attempt on the next endpoint
NextCandidate(c) ==
    IF c.attempt < maxRetries
    THEN [c EXCEPT !.attempt = @ + 1, !.probes = @ + 1]
    ELSE [c EXCEPT !.endpoint = @ + 1, !.attempt = 1, !.probes = @ + 1]

\* one liveness probe (connection.getSlot) of the current candidate; on
\* success the connection is returned to the caller
ConnProbe ==
    /\ pc = "connect"
    /\ did' = did \cup {"probe"}
    /\ LET eps == rpcEndpoints(RPC_URL)
           e   == conn.endpoint
           k   == conn.attempt
       IN \E ok \in BOOLEAN :
            IF ok
            THEN /\ conn' = [NoConn EXCEPT !.connection = eps[e]]
                 /\ result' = result
                 /\ IF op = "issue"
                    THEN /\ pc' = "balance_read"
                         /\ bal' = [NoBal EXCEPT !.retries = BalanceRetries]
                    ELSE /\ pc' = IF op = "list" THEN "list_fetch" ELSE "info_probe"
                         /\ bal' = bal
            ELSE /\ bal' = bal
                 /\ IF k = maxRetries /\ eps[e] = eps[Len(eps)]
                    THEN /\ Fail([kind |-> "NetworkExhausted", last |-> <<e, k>>])
                         /\ conn' = [conn EXCEPT !.probes = @ + 1]
                    ELSE /\ pc' = pc
                         /\ result' = result
                         /\ conn' = NextCandidate(conn)
    /\ UNCHANGED <<env, world, opsStarted, op, args, up, mint, reg, lst, calls>>

\* -------------------------------------------- ensureSufficientBalance
InsufficientFunds(lamports) ==
    [kind |-> "InsufficientFunds", current |-> ToFixed4(lamports),
     required |-> MinBalanceLamports]

\* mintTicketWithSmartContract, after ensureSufficientBalance returned: the
\* image check, then uploadToIPFS up to its first request
EnterUploading ==
    /\ bal' = [NoBal EXCEPT !.returned = TRUE]
    /\ IF ~ImageExists(args.imagePath)
       THEN Fail([kind |-> "ImageNotFound"]) /\ up' = up
       ELSE IF ~PINATA_JWT
       THEN Fail([kind |-> "ConfigMissing", what |-> "PINATA_JWT"]) /\ up' = up
       ELSE /\ pc' = "upload_image"
            /\ result' = result
            /\ up' = [up EXCEPT !.retries = UploadRetries]

\* a short balance that is reported and then ignored: the run goes on to
\* the uploads
BalanceCheck_Continue(b) ==
    IF b.lamports < MinBalanceLamports
    THEN /\ result' = InsufficientFunds(b.lamports)
         /\ pc' = "upload_image"
         /\ up' = [up EXCEPT !.retries = UploadRetries]
         /\ bal' = b
    ELSE EnterUploading

\* if (sol < minBalance) throw, with sol the balance read before any airdrop;
\* b is the state of the locals as the check is reached
BalanceCheck(b) ==
    IF b.lamports < MinBalanceLamports
    THEN Fail(InsufficientFunds(b.lamports)) /\ up' = up /\ bal' = b
    ELSE EnterUploading

\* the airdrop asked for on any network
WantsAirdrop_AnyNetwork(lamports, rpcUrl) ==
    lamports < MinBalanceLamports

\* the airdrop is asked for when the balance is short and RPC_URL is a localnet
WantsAirdrop(lamports, rpcUrl) ==
    lamports < MinBalanceLamports /\ IsLocalnet(rpcUrl)

\* connection.getBalance, up to three attempts
BalanceRead ==
    /\ pc = "balance_read"
    /\ calls' = SentTo(conn.connection)
    /\ did' = did \cup {"balanceRead"}
    /\ \E ok \in BOOLEAN :
         IF ok
         THEN LET b == [bal EXCEPT !.lamports = balance, !.reads = @ + 1] IN
              IF WantsAirdrop(balance, RPC_URL)
              THEN pc' = "airdrop_request" /\ result' = result /\ up' = up /\ bal' = b
              ELSE BalanceCheck(b)
         ELSE /\ bal' = [bal EXCEPT !.retries = @ - 1, !.reads = @ + 1]
              /\ up' = up
              /\ IF bal.retries - 1 = 0
                 THEN Fail([kind |-> "BalanceReadError", attempt |-> bal.reads + 1])
                 ELSE pc' = pc /\ result' = result
    /\ UNCHANGED <<env, world, opsStarted, op, args, conn, mint, reg, lst>>

\* an airdrop request whose error is thrown to the caller
AirdropRequest_Propagate ==
    /\ pc = "airdrop_request"
    /\ calls' = SentTo(conn.connection)
    /\ did' = did \cup {"airdrop"}
    /\ LET b == [bal EXCEPT !.airdrops = @ + 1] IN
       \E ok \in BOOLEAN :
         IF ok THEN pc' = "airdrop_blockhash" /\ result' = result /\ up' = up /\ bal' = b
               ELSE Fail([kind |-> "AirdropError"]) /\ up' = up /\ bal' = b
    /\ UNCHANGED <<env, world, opsStarted, op, args, conn, mint, reg, lst>>

\* connection.requestAirdrop(publicKey, 2 * LAMPORTS_PER_SOL)
AirdropRequest ==
    /\ pc = "airdrop_request"
    /\ calls' = SentTo(conn.connection)
    /\ did' = did \cup {"airdrop"}
    /\ LET b == [bal EXCEPT !.airdrops = @ + 1] IN
       \E ok \in BOOLEAN :
         IF ok THEN pc' = "airdrop_blockhash" /\ result' = result /\ up' = up /\ bal' = b
               ELSE BalanceCheck(b)
    /\ UNCHANGED <<env, world, opsStarted, op, args, conn, mint, reg, lst>>

\* connection.getLatestBlockhash()
AirdropBlockhash ==
    /\ pc = "airdrop_blockhash"
    /\ calls' = SentTo(conn.connection)
    /\ \E ok \in BOOLEAN :
         IF ok THEN pc' = "airdrop_confirm" /\ result' = result /\ up' = up /\ bal' = bal
               ELSE BalanceCheck(bal)
    /\ UNCHANGED <<env, world, opsStarted, op, args, conn, mint, reg, lst, did>>

\* connection.confirmTransaction: resolves when the transaction is settled,
\* whether it landed or failed (value.err), and throws when it expires
AirdropConfirm ==
    /\ pc = "airdrop_confirm"
    /\ calls' = SentTo(conn.connection)
    /\ \E out \in {"landed", "txerr", "throw"} :
         /\ balance' = IF out = "landed"
                       THEN balance + AIRDROP_SOL * LAMPORTS_PER_SOL ELSE balance
         /\ IF out = "throw"
            THEN BalanceCheck(bal)
            ELSE pc' = "airdrop_newbal" /\ result' = result /\ up' = up /\ bal' = bal
    /\ UNCHANGED <<env, ledger, nfts, last_mint, nextMint, opsStarted, op, args,
                   conn, mint, reg, lst, did>>

\* const newBal = await connection.getBalance(publicKey); return
AirdropNewBalance ==
    /\ pc = "airdrop_newbal"
    /\ calls' = SentTo(conn.connection)
    /\ \E ok \in BOOLEAN :
         IF ok THEN EnterUploading ELSE BalanceCheck([bal EXCEPT !.reads = @ + 1])
    /\ UNCHANGED <<env, world, opsStarted, op, args, conn, mint, reg, lst, did>>

\* ------------------------------------- uploadToIPFS / uploadJSONToIPFS
\* what one request to the storage service can come to: a response with a
\* content identifier, a response without one, an error response with a body,
\* an error without a response
UploadOutcomes == {"cid", "nocid", "payload", "transport"}

\* msg = err?.response?.data ? JSON.stringify(err.response.data) : err.message
UploadErrorMsg(out, attempt) ==
    IF out = "payload" THEN <<"response.data", out, attempt>>
                       ELSE <<"message", out, attempt>>

UploadFailed(what, out, attempt) ==
    [kind |-> "UploadFailed", what |-> what, msg |-> UploadErrorMsg(out, attempt)]

\* a metadata document that names a fixed image instead of the uploaded one
Metadata_FixedImage(a, imageUri) ==
    [kind |-> "metadata", name |-> a.name, image |-> GatewayUrl("cidA"),
     files |-> <<GatewayUrl("cidA")>>,
     price |-> a.price, resaleAllowed |-> a.resaleAllowed, maxMarkup |-> a.maxMarkup]

\* the metadata document of mintTicketWithSmartContract
Metadata(a, imageUri) ==
    [kind |-> "metadata", name |-> a.name, image |-> imageUri, files |-> <<imageUri>>,
     price |-> a.price, resaleAllowed |-> a.resaleAllowed, maxMarkup |-> a.maxMarkup]

\* one axios.post of uploadToIPFS; on success the metadata document is built
\* and uploadJSONToIPFS is entered
UploadImage ==
    /\ pc = "upload_image"
    /\ did' = did \cup {"image"}
    /\ \E out \in UploadOutcomes, c \in Cids :
         IF out = "cid"
         THEN /\ up' = [up EXCEPT !.cid = c,
                                  !.imageUri = GatewayUrl(c),
                                  !.metadata = Metadata(args, GatewayUrl(c)),
                                  !.retries = UploadRetries,
                                  !.requests = 0]
              /\ pc' = "upload_meta"
              /\ result' = result
         ELSE /\ up' = [up EXCEPT !.retries = @ - 1, !.requests = @ + 1]
              /\ IF up.retries - 1 = 0
                 THEN Fail(UploadFailed("image", out, up.requests + 1))
                 ELSE pc' = pc /\ result' = result
    /\ UNCHANGED <<env, world, opsStarted, op, args, conn, bal, mint, reg, lst, calls>>

\* one axios.post of uploadJSONToIPFS; on success generateSigner and the
\* write of last_mint.json follow without a remote call
UploadMetadata ==
    /\ pc = "upload_meta"
    /\ \E out \in UploadOutcomes, c \in Cids, wrote \in BOOLEAN :
         IF out = "cid"
         THEN /\ up' = [up EXCEPT !.cid = c,
                                  !.metadataUri = GatewayUrl(c),
                                  !.retries = 0, !.requests = 0]
              /\ did' = did \cup (IF wrote THEN {"metadata", "last_mint.json"}
                                            ELSE {"metadata"})
              /\ mint' = nextMint
              /\ nextMint' = nextMint + 1
              /\ last_mint' = IF wrote THEN nextMint ELSE last_mint
              /\ pc' = "mint_nft"
              /\ result' = result
         ELSE /\ up' = [up EXCEPT !.retries = @ - 1, !.requests = @ + 1]
              /\ did' = did \cup {"metadata"}
              /\ UNCHANGED <<mint, nextMint, last_mint>>
              /\ IF up.retries - 1 = 0
                 THEN Fail(UploadFailed("metadata", out, up.requests + 1))
                 ELSE pc' = pc /\ result' = result
    /\ UNCHANGED <<env, ledger, balance, nfts, opsStarted, op, args, conn, bal, reg,
                   lst, calls>>

\* ------------------------------------------- createSmartContractTicket
\* entry: provider, program and record address, up to the existence probe
StartReg(mintAddress, price, resaleAllowed, maxMarkup) ==
    [pc |-> "probe", mint |-> mintAddress, price |-> price,
     resaleAllowed |-> resaleAllowed, maxMarkup |-> maxMarkup,
     ticketPda |-> RegisterPda(wallet, mintAddress),
     found |-> FALSE,
     pre |-> ledger[RegisterPda(wallet, mintAddress)],
     creates |-> 0, ret |-> NoResult]

\* connection.getAccountInfo(ticketPda)
RegProbe(i) ==
    /\ reg[i].pc = "probe"
    /\ calls' = SentTo(conn.connection)
    /\ did' = did \cup {"getAccountInfo"}
    /\ \E ok \in BOOLEAN :
         reg' = [reg EXCEPT ![i] =
                   IF ~ok
                   THEN [@ EXCEPT !.pc = "thrown",
                                  !.ret = [kind |-> "RpcError", at |-> "getAccountInfo"]]
                   ELSE IF ledger[@.ticketPda].exists
                   THEN [@ EXCEPT !.pc = "fetch", !.found = TRUE]
                   ELSE [@ EXCEPT !.pc = "create"]]
    /\ UNCHANGED <<env, world, opsStarted, op, pc, args, conn, bal, up, mint, lst, result>>

\* program.account.ticket.fetch(ticketPda) of the existing record; when it
\* fails the inner catch logs, and control leaves the `if (accountInfo)` block
\* for the createTicket call below it
RegFetch(i) ==
    /\ reg[i].pc = "fetch"
    /\ calls' = SentTo(conn.connection)
    /\ \E ok \in BOOLEAN :
         reg' = [reg EXCEPT ![i] =
                   IF ok
                   THEN [@ EXCEPT !.pc = "returned",
                                  !.ret = [kind |-> "registration",
                                           ticketPda |-> reg[i].ticketPda,
                                           signature |-> NoUri,
                                           alreadyExists |-> TRUE]]
                   ELSE [@ EXCEPT !.pc = "create"]]
    /\ UNCHANGED <<env, world, opsStarted, op, pc, args, conn, bal, up, mint, lst, did, result>>

\* a rejected createTicket that is reported as a record newly created
RegCreate_ReportsCreated(i) ==
    /\ reg[i].pc = "create"
    /\ calls' = [calls EXCEPT !.create = @ + 1, !.via = @ \cup {conn.connection}]
    /\ LET r   == reg[i]
           pda == r.ticketPda
       IN \E sent \in BOOLEAN :
            IF ~sent
            THEN /\ reg' = [reg EXCEPT ![i] =
                              [@ EXCEPT !.pc = "thrown", !.creates = @ + 1,
                                        !.ret = [kind |-> "RpcError", at |-> "createTicket"]]]
                 /\ ledger' = ledger
            ELSE /\ ledger' = IF ProgramCreateVerdict(ledger[pda]) = "ok"
                              THEN [ledger EXCEPT ![pda] =
                                      NewTicket(wallet, BNLamports(r.price),
                                                r.resaleAllowed, r.maxMarkup, r.mint)]
                              ELSE ledger
                 /\ reg' = [reg EXCEPT ![i] =
                              [@ EXCEPT !.pc = "returned", !.creates = @ + 1,
                                        !.ret = [kind |-> "registration",
                                                 ticketPda |-> pda,
                                                 signature |-> <<"createTicket", r.mint>>,
                                                 alreadyExists |-> FALSE]]]
    /\ UNCHANGED <<env, balance, nfts, last_mint, nextMint, opsStarted, op, pc, args,
                   conn, bal, up, mint, lst, did, result>>

\* program.methods.createTicket(new BN(price * LAMPORTS_PER_SOL), ...).rpc()
RegCreate(i) ==
    /\ reg[i].pc = "create"
    /\ calls' = [calls EXCEPT !.create = @ + 1, !.via = @ \cup {conn.connection}]
    /\ LET r   == reg[i]
           pda == r.ticketPda
       IN \E sent \in BOOLEAN :
            IF ~sent
            THEN /\ reg' = [reg EXCEPT ![i] =
                              [@ EXCEPT !.pc = "thrown", !.creates = @ + 1,
                                        !.ret = [kind |-> "RpcError", at |-> "createTicket"]]]
                 /\ ledger' = ledger
            ELSE IF ProgramCreateVerdict(ledger[pda]) = "ok"
            THEN /\ ledger' = [ledger EXCEPT ![pda] =
                                 NewTicket(wallet, BNLamports(r.price),
                                           r.resaleAllowed, r.maxMarkup, r.mint)]
                 /\ reg' = [reg EXCEPT ![i] =
                              [@ EXCEPT !.pc = "returned", !.creates = @ + 1,
                                        !.ret = [kind |-> "registration",
                                                 ticketPda |-> pda,
                                                 signature |-> <<"createTicket", r.mint>>,
                                                 alreadyExists |-> FALSE]]]
            ELSE /\ ledger' = ledger
                 /\ reg' = [reg EXCEPT ![i] =
                              [@ EXCEPT !.pc = "thrown", !.creates = @ + 1,
                                        !.ret = [kind |-> "ProgramError",
                                                 code |-> ProgramCreateVerdict(ledger[pda])]]]
    /\ UNCHANGED <<env, balance, nfts, last_mint, nextMint, opsStarted, op, pc, args,
                   conn, bal, up, mint, lst, did, result>>

\* --------------------------------------- mintTicketWithSmartContract
\* the parameter check without the price
MissingParameter_NoPrice(a) ==
    a.imagePath = None \/ a.name = None \/ a.description = None

\* if (!imagePath || !name || !description || !price)
MissingParameter(a) ==
    a.imagePath = None \/ a.name = None \/ a.description = None \/ a.price = 0

StartIssue(a) ==
    /\ Idle
    /\ opsStarted < MaxOps
    /\ nextMint <= MaxMints
    /\ opsStarted' = opsStarted + 1
    /\ op' = "issue"
    /\ pc' = "Validating"
    /\ args' = a
    /\ reg' = [i \in RegIds |-> NoReg]
    /\ ResetLocals
    /\ UNCHANGED <<env, world>>

\* the parameter check and the keypair, up to the first liveness probe
Validate ==
    /\ pc = "Validating"
    /\ IF MissingParameter(args)
       THEN Fail([kind |-> "MissingParameter"]) /\ conn' = conn
       ELSE pc' = "connect" /\ result' = result /\ conn' = InitConn
    /\ UNCHANGED <<env, world, opsStarted, op, args, bal, up, mint, reg, lst, calls, did>>

\* a mint call that is made a second time when the first one fails
MintNft_Retry ==
    /\ pc = "mint_nft"
    /\ calls' = [calls EXCEPT !.mint = @ + 1, !.via = @ \cup {RPC_URL}]
    /\ \E ok \in BOOLEAN :
         IF ok
         THEN /\ nfts' = nfts \cup {mint}
              /\ reg' = [reg EXCEPT ![1] =
                           StartReg(mint, args.price, args.resaleAllowed, args.maxMarkup)]
              /\ pc' = "register"
              /\ result' = result
         ELSE /\ IF calls.mint = 0
                 THEN pc' = pc /\ result' = result
                 ELSE Fail([kind |-> "MintingFailed", mint |-> mint])
              /\ UNCHANGED <<nfts, reg>>
    /\ UNCHANGED <<env, ledger, balance, last_mint, nextMint, opsStarted, op, args,
                   conn, bal, up, mint, lst, did>>

\* createNft(umi, {mint, uri: metadataUri, ...}).sendAndConfirm(umi); on success
\* createSmartContractTicket is entered
MintNft ==
    /\ pc = "mint_nft"
    /\ calls' = [calls EXCEPT !.mint = @ + 1, !.via = @ \cup {RPC_URL}]
    /\ \E ok \in BOOLEAN :
         IF ok
         THEN /\ nfts' = nfts \cup {mint}
              /\ reg' = [reg EXCEPT ![1] =
                           StartReg(mint, args.price, args.resaleAllowed, args.maxMarkup)]
              /\ pc' = "register"
              /\ result' = result
         ELSE /\ Fail([kind |-> "MintingFailed", mint |-> mint])
              /\ UNCHANGED <<nfts, reg>>
    /\ UNCHANGED <<env, ledger, balance, last_mint, nextMint, opsStarted, op, args,
                   conn, bal, up, mint, lst, did>>

\* the invocation of createSmartContractTicket the current operation awaits
RegSlot == IF op = "issue" THEN 1 ELSE 2

\* the value mintTicketWithSmartContract returns
Session(r) ==
    [kind |-> "session", mintAddress |-> mint, ticketPda |-> r.ticketPda,
     nftSignature |-> <<"createNft", mint>>, smartContractSignature |-> r.signature,
     imageUri |-> up.imageUri, metadataUri |-> up.metadataUri, price |-> args.price,
     resaleAllowed |-> args.resaleAllowed, maxMarkup |-> args.maxMarkup]

\* an error of createSmartContractTicket that is not rethrown
AwaitRegister_Swallow ==
    /\ pc = "register"
    /\ reg[RegSlot].pc \in {"returned", "thrown"}
    /\ pc' = "done"
    /\ result' = IF op = "issue" /\ reg[RegSlot].pc = "returned"
                 THEN Session(reg[RegSlot].ret)
                 ELSE reg[RegSlot].ret
    /\ UNCHANGED <<env, world, opsStarted, op, args, conn, bal, up, mint, reg, lst,
                   calls, did>>

\* createSmartContractTicket has returned or thrown to its caller
AwaitRegister ==
    /\ pc = "register"
    /\ reg[RegSlot].pc \in {"returned", "thrown"}
    /\ IF reg[RegSlot].pc = "thrown"
       THEN Fail(reg[RegSlot].ret)
       ELSE /\ pc' = "done"
            /\ result' = IF op = "issue" THEN Session(reg[RegSlot].ret)
                                         ELSE reg[RegSlot].ret
    /\ UNCHANGED <<env, world, opsStarted, op, args, conn, bal, up, mint, reg, lst,
                   calls, did>>

\* createSmartContractTicket called on its own, for an asset minted before; the
\* invocation an issuance run made before it stays on record in slot 1
RegisterArgs ==
    { [mintAddress |-> m, price |-> a.price, resaleAllowed |-> a.resaleAllowed,
       maxMarkup |-> a.maxMarkup] : m \in Mints, a \in ValidIssueArgs }

StartRegister(a) ==
    /\ Idle
    /\ opsStarted < MaxOps
    /\ a.mintAddress \in nfts
    /\ opsStarted' = opsStarted + 1
    /\ op' = "register"
    /\ pc' = "register"
    /\ args' = a
    /\ reg' = [reg EXCEPT ![2] =
                 StartReg(a.mintAddress, a.price, a.resaleAllowed, a.maxMarkup)]
    /\ ResetLocals
    /\ UNCHANGED <<env, world>>

\* ------------------------------------------------ listTicketForResale
\* the cap computed without the division by 100
ExceedsMaxAllowedPrice_NoPercent(newPrice, ticketData) ==
    newPrice > ticketData.originalPrice * (1 + ticketData.maxMarkup) * SubUnits

\* the cap as an exclusive bound
ExceedsMaxAllowedPrice_Exclusive(newPrice, ticketData) ==
    newPrice * 100 >= ticketData.originalPrice * (100 + ticketData.maxMarkup) * SubUnits

\* const maxAllowedPrice = originalPrice * (1 + maxMarkup / 100);
\* if (newPrice > maxAllowedPrice): with newPrice in 1/SubUnits lamport and
\* originalPrice in lamports, cleared of the division
ExceedsMaxAllowedPrice(newPrice, ticketData) ==
    newPrice * 100 > ticketData.originalPrice * (100 + ticketData.maxMarkup) * SubUnits

\* the two checks in the other order
ListPrecheck_MarkupFirst(newPrice, ticketData) ==
    IF newPrice * 100 > ticketData.originalPrice * (100 + ticketData.maxMarkup) * SubUnits
    THEN "MarkupExceeded"
    ELSE IF ~ticketData.resaleAllowed THEN "ResaleNotAllowed"
    ELSE "ok"

\* the two checks before the instruction is built, in their order
ListPrecheck(newPrice, ticketData) ==
    IF ~ticketData.resaleAllowed THEN "ResaleNotAllowed"
    ELSE IF ExceedsMaxAllowedPrice(newPrice, ticketData) THEN "MarkupExceeded"
    ELSE "ok"

ListArgs == [mintAddress : Mints, newPrice : NewPrices]

\* entry: the keypair, up to the first liveness probe
StartList(a) ==
    /\ Idle
    /\ opsStarted < MaxOps
    /\ opsStarted' = opsStarted + 1
    /\ op' = "list"
    /\ pc' = "connect"
    /\ args' = a
    /\ reg' = [i \in RegIds |-> NoReg]
    /\ conn' = InitConn
    /\ bal' = NoBal
    /\ up' = NoUp
    /\ mint' = NoMint
    /\ lst' = NoLst
    /\ calls' = NoCalls
    /\ did' = {}
    /\ result' = NoResult
    /\ UNCHANGED <<env, world>>

\* program.account.ticket.fetch(ticketPda), then the two checks
ListFetch ==
    /\ pc = "list_fetch"
    /\ calls' = SentTo(conn.connection)
    /\ did' = did \cup {"fetch"}
    /\ LET pda == getTicketPDA(wallet, args.mintAddress, PROGRAM_ID)
           t   == ledger[pda]
       IN \E ok \in BOOLEAN :
            IF ~ok
            THEN Fail([kind |-> "RpcError", at |-> "fetch"]) /\ lst' = lst
            ELSE IF ~t.exists
            THEN Fail([kind |-> "AccountNotFound", pda |-> pda]) /\ lst' = lst
            ELSE /\ lst' = [lst EXCEPT !.ticketData = t]
                 /\ IF ListPrecheck(args.newPrice, t) = "ok"
                    THEN pc' = "list_rpc" /\ result' = result
                    ELSE Fail([kind |-> ListPrecheck(args.newPrice, t),
                               newPrice |-> args.newPrice])
    /\ UNCHANGED <<env, world, opsStarted, op, args, conn, bal, up, mint, reg>>

\* program.methods.listTicket(new BN(newPrice * LAMPORTS_PER_SOL)).rpc()
ListRpc ==
    /\ pc = "list_rpc"
    /\ calls' = [calls EXCEPT !.list = @ + 1, !.via = @ \cup {conn.connection}]
    /\ lst' = [lst EXCEPT !.submitted = BNLamports(args.newPrice)]
    /\ LET pda     == getTicketPDA(wallet, args.mintAddress, PROGRAM_ID)
           verdict == ProgramListVerdict(ledger[pda], wallet, BNLamports(args.newPrice))
       IN \E sent \in BOOLEAN :
            IF ~sent
            THEN Fail([kind |-> "RpcError", at |-> "listTicket"]) /\ ledger' = ledger
            ELSE IF verdict = "ok"
            THEN /\ ledger' = [ledger EXCEPT ![pda] =
                                 [@ EXCEPT !.price = BNLamports(args.newPrice),
                                           !.isListed = TRUE]]
                 /\ pc' = "done"
                 /\ result' = [kind |-> "tx", signature |-> <<"listTicket", args.mintAddress>>]
            ELSE Fail([kind |-> "ProgramError", code |-> verdict]) /\ ledger' = ledger
    /\ UNCHANGED <<env, balance, nfts, last_mint, nextMint, opsStarted, op, args,
                   conn, bal, up, mint, reg, did>>

\* ------------------------------------------------------- getTicketInfo
\* the asset getTicketInfo falls back to: one minted by an earlier run
MINT_ADDRESS == 1

\* a ledger amount returned as it is stored
FromLamports_Raw(lamports) == lamports

\* x.toNumber() / LAMPORTS_PER_SOL: a ledger amount as a number of SOL
FromLamports(lamports) == lamports * SubUnits

\* the object getTicketInfo returns for the record t read at pda
TicketInfo(pda, t) ==
    [kind |-> "ticket", pda |-> pda, owner |-> t.owner,
     price |-> FromLamports(t.price), originalPrice |-> FromLamports(t.originalPrice),
     resaleAllowed |-> t.resaleAllowed, maxMarkup |-> t.maxMarkup,
     isListed |-> t.isListed, mint |-> t.mint]

\* getTicketPDA(new PublicKey(OWNER_PUBKEY), mintAddress || MINT_ADDRESS, PROGRAM_ID)
InfoPda(a) ==
    getTicketPDA(OWNER_PUBKEY,
                 IF a.mintAddress = NoMint THEN MINT_ADDRESS ELSE a.mintAddress,
                 PROGRAM_ID)

\* getTicketInfo(mintAddress = null)
InfoArgs == [mintAddress : Mints \cup {NoMint}]

\* entry: the keypair, up to the first liveness probe
StartInfo(a) ==
    /\ Idle
    /\ opsStarted < MaxOps
    /\ opsStarted' = opsStarted + 1
    /\ op' = "info"
    /\ pc' = "connect"
    /\ args' = a
    /\ reg' = [i \in RegIds |-> NoReg]
    /\ conn' = InitConn
    /\ bal' = NoBal
    /\ up' = NoUp
    /\ mint' = NoMint
    /\ lst' = NoLst
    /\ calls' = NoCalls
    /\ did' = {}
    /\ result' = NoResult
    /\ UNCHANGED <<env, world>>

\* connection.getAccountInfo(ticketPDA)
InfoProbe ==
    /\ pc = "info_probe"
    /\ calls' = SentTo(conn.connection)
    /\ did' = did \cup {"getAccountInfo"}
    /\ \E ok \in BOOLEAN :
         IF ~ok
         THEN Fail([kind |-> "RpcError", at |-> "getAccountInfo"])
         ELSE IF ~ledger[InfoPda(args)].exists
         THEN Fail([kind |-> "RecordNotFound", pda |-> InfoPda(args)])
         ELSE pc' = "info_fetch" /\ result' = result
    /\ UNCHANGED <<env, world, opsStarted, op, args, conn, bal, up, mint, reg, lst>>

\* program.account.ticket.fetch(ticketPDA), then the returned object
InfoFetch ==
    /\ pc = "info_fetch"
    /\ calls' = SentTo(conn.connection)
    /\ did' = did \cup {"fetch"}
    /\ \E ok \in BOOLEAN :
         IF ~ok
         THEN Fail([kind |-> "RpcError", at |-> "fetch"])
         ELSE /\ pc' = "done"
              /\ result' = TicketInfo(InfoPda(args), ledger[InfoPda(args)])
    /\ UNCHANGED <<env, world, opsStarted, op, args, conn, bal, up, mint, reg, lst>>

\* ------------------------------------------------------ specification
Next ==
    \/ \E a \in IssueArgs : StartIssue(a)
    \/ Validate
    \/ ConnProbe
    \/ BalanceRead
    \/ AirdropRequest
    \/ AirdropBlockhash
    \/ AirdropConfirm
    \/ AirdropNewBalance
    \/ UploadImage
    \/ UploadMetadata
    \/ MintNft
    \/ \E i \in RegIds : RegProbe(i)
    \/ \E i \in RegIds : RegFetch(i)
    \/ \E i \in RegIds : RegCreate(i)
    \/ AwaitRegister
    \/ \E a \in RegisterArgs : StartRegister(a)
    \/ \E a \in ListArgs : StartList(a)
    \/ ListFetch
    \/ ListRpc
    \/ \E a \in InfoArgs : StartInfo(a)
    \/ InfoProbe
    \/ InfoFetch

Spec == Init /\ [][Next]_vars

\* The same operations run with whichever keypair KEYPAIR_PATH holds: the
\* wallet need not be the one whose key is written at OWNER_PUBKEY.
InitAnyWallet ==
    /\ RPC_URL \in RpcUrls
    /\ PINATA_JWT \in BOOLEAN
    /\ wallet \in Wallets
    /\ ledger = [a \in PDAs |-> NoAccount]
    /\ balance \in InitBalances
    /\ nfts = {}
    /\ last_mint = NoMint
    /\ nextMint = 1
    /\ opsStarted = 0
    /\ op = None
    /\ pc = "idle"
    /\ args = NoResult
    /\ conn = NoConn
    /\ bal = NoBal
    /\ up = NoUp
    /\ mint = NoMint
    /\ reg = [i \in RegIds |-> NoReg]
    /\ lst = NoLst
    /\ calls = NoCalls
    /\ did = {}
    /\ result = NoResult

SpecAnyWallet == InitAnyWallet /\ [][Next]_vars

\* ------------------------------------------------ issuance runs alone
\* The steps of mintTicketWithSmartContract after its entry. Each is the
\* completion of one await: a remote call that returns or throws, or the
\* delay before a retry. The asset of a run is freshly generated, so its
\* record is never found by the existence probe and the fetch of an existing
\* record is no step of these runs.
IssueStep ==
    \/ Validate
    \/ ConnProbe
    \/ BalanceRead
    \/ AirdropRequest
    \/ AirdropBlockhash
    \/ AirdropConfirm
    \/ AirdropNewBalance
    \/ UploadImage
    \/ UploadMetadata
    \/ MintNft
    \/ \E i \in RegIds : RegProbe(i)
    \/ \E i \in RegIds : RegCreate(i)
    \/ AwaitRegister

NextIssue ==
    \/ \E a \in IssueArgs : StartIssue(a)
    \/ IssueStep

\* every await of a run completes: no remote call hangs forever
SpecLive == Init /\ [][NextIssue]_vars /\ WF_vars(IssueStep)

\* ------------------------------------------ racing registrations
\* Two invocations of createSmartContractTicket for one asset of the wallet,
\* entered together (two processes of the same operator) and interleaved step
\* by step.
RaceArgs == [mintAddress : Mints, first : ValidIssueArgs, second : ValidIssueArgs]

\* an asset has been minted and has no record
InitRace ==
    /\ RPC_URL = DevnetUrl
    /\ PINATA_JWT = TRUE
    /\ wallet = OWNER_PUBKEY
    /\ ledger = [a \in PDAs |-> NoAccount]
    /\ balance = MinBalanceLamports
    /\ nfts = {1}
    /\ last_mint = 1
    /\ nextMint = 2
    /\ opsStarted = 0
    /\ op = None
    /\ pc = "idle"
    /\ args = NoResult
    /\ conn = NoConn
    /\ bal = NoBal
    /\ up = NoUp
    /\ mint = NoMint
    /\ reg = [i \in RegIds |-> NoReg]
    /\ lst = NoLst
    /\ calls = NoCalls
    /\ did = {}
    /\ result = NoResult

StartRace(a) ==
    /\ Idle
    /\ opsStarted < MaxOps
    /\ a.mintAddress \in nfts
    /\ opsStarted' = opsStarted + 1
    /\ op' = "race"
    /\ pc' = "register"
    /\ args' = a
    /\ reg' = [i \in RegIds |->
                 LET v == IF i = 1 THEN a.first ELSE a.second
                 IN StartReg(a.mintAddress, v.price, v.resaleAllowed, v.maxMarkup)]
    /\ ResetLocals
    /\ UNCHANGED <<env, world>>

\* both invocations have returned or thrown
RaceSettled ==
    /\ op = "race"
    /\ pc = "register"
    /\ \A i \in RegIds : reg[i].pc \in {"returned", "thrown"}
    /\ pc' = "done"
    /\ result' = [kind |-> "race", first |-> reg[1].ret, second |-> reg[2].ret]
    /\ UNCHANGED <<env, world, opsStarted, op, args, conn, bal, up, mint, reg, lst,
                   calls, did>>

NextRace ==
    \/ \E a \in RaceArgs : StartRace(a)
    \/ \E i \in RegIds : RegProbe(i)
    \/ \E i \in RegIds : RegFetch(i)
    \/ \E i \in RegIds : RegCreate(i)
    \/ RaceSettled

SpecRace == InitRace /\ [][NextRace]_vars

\* ------------------------------------------- the address derivations
\* The three places that derive a record address, applied to triples of
\* program, organizer and asset.
OtherProgram == "TokenkegQfeZyiNwAJbNbGKPFXCWuBvf9Ss623VQ5DA"
Triples == [program : {PROGRAM_ID, OtherProgram}, organizer : Wallets, mint : Mints]
DeriveSites == {"createSmartContractTicket", "getTicketPDA", "client.ts"}

\* the address the derivation at `site` gives for the triple t
DerivedAt(site, t) ==
    CASE site = "createSmartContractTicket" -> RegisterPda(t.organizer, t.mint)
      [] site = "getTicketPDA" -> getTicketPDA(t.organizer, t.mint, t.program)
      [] site = "client.ts" -> ClientTicketPda(t.organizer, t.mint)

InitDerive ==
    /\ RPC_URL = DevnetUrl
    /\ PINATA_JWT = TRUE
    /\ wallet = OWNER_PUBKEY
    /\ ledger = [a \in PDAs |-> NoAccount]
    /\ balance = MinBalanceLamports
    /\ nfts = {}
    /\ last_mint = NoMint
    /\ nextMint = 1
    /\ opsStarted = 0
    /\ op = "derive"
    /\ pc = "derive"
    /\ args \in [kind : {"triples"}, a : Triples, b : Triples]
    /\ conn = NoConn
    /\ bal = NoBal
    /\ up = NoUp
    /\ mint = NoMint
    /\ reg = [i \in RegIds |-> NoReg]
    /\ lst = NoLst
    /\ calls = NoCalls
    /\ did = {}
    /\ result = NoResult

\* one call of the derivation at `site` for each of the two triples; the two
\* places that take no program id derive under PROGRAM_ID
Derive(site) ==
    /\ pc = "derive"
    /\ site # "getTicketPDA" => args.a.program = PROGRAM_ID /\ args.b.program = PROGRAM_ID
    /\ result' = [kind |-> "pda", site |-> site,
                  a |-> DerivedAt(site, args.a), b |-> DerivedAt(site, args.b)]
    /\ UNCHANGED <<env, world, opsStarted, op, pc, args, conn, bal, up, mint, reg, lst,
                   calls, did>>

NextDerive == \E site \in DeriveSites : Derive(site)

SpecDerive == InitDerive /\ [][NextDerive]_vars

\* ------------------------------------------------------------- claims
Finished(r) == r.pc \in {"returned", "thrown"}

\* the record a list operation fetched allows resale
ListFetchedResalable ==
    op = "list" /\ lst.ticketData.exists /\ lst.ticketData.resaleAllowed

\* the asked price is within the cap originalPrice * (1 + maxMarkup/100)
WithinCap(newPrice, t) ==
    newPrice * 100 <= t.originalPrice * (100 + t.maxMarkup) * SubUnits

\* the list operation passed its local checks: the instruction is about to be
\* submitted or has been
ListPassedLocalCheck == pc = "list_rpc" \/ calls.list > 0

\* C1: an invocation of createSmartContractTicket that starts when the record
\* of its asset exists already submits no createTicket instruction, returns
\* alreadyExists = true without a signature if it returns, and leaves the
\* record as it was.
C1_IdempotentRegistration ==
    \A i \in RegIds :
        (reg[i].pre.exists /\ Finished(reg[i])) =>
            /\ reg[i].creates = 0
            /\ reg[i].pc = "returned" =>
                   reg[i].ret.alreadyExists /\ reg[i].ret.signature = NoUri
            /\ ledger[reg[i].ticketPda] = reg[i].pre

\* C2: once the existence probe of an invocation has found an account, the
\* invocation never reaches the createTicket call, whatever the read of the
\* existing record comes to, and what it returns says alreadyExists = true.
C2_ReadBeforeWrite ==
    \A i \in RegIds :
        reg[i].found =>
            /\ reg[i].pc \in {"fetch", "returned"}
            /\ reg[i].creates = 0
            /\ reg[i].pc = "returned" => reg[i].ret.alreadyExists

\* C3: every listed record has price <= originalPrice * (1 + maxMarkup/100),
\* and a list operation that asks for more than that never submits a
\* listTicket instruction: it fails in the local checks.
C3_MarkupInvariant ==
    /\ \A a \in PDAs :
          (ledger[a].exists /\ ledger[a].isListed) =>
              ledger[a].price * 100 <= ledger[a].originalPrice * (100 + ledger[a].maxMarkup)
    /\ (op = "list" /\ lst.ticketData.exists /\ ~WithinCap(args.newPrice, lst.ticketData)) =>
          /\ calls.list = 0
          /\ pc = "failed"
          /\ result.kind \in {"MarkupExceeded", "ResaleNotAllowed"}

C3_Witness ==
    \E a \in PDAs :
        /\ ledger[a].exists /\ ledger[a].isListed
        /\ ledger[a].price > ledger[a].originalPrice
        /\ op = "list" /\ pc = "done"

\* C4: for a record that allows resale, a list operation passes the local
\* check exactly when newPrice <= originalPrice * (1 + maxMarkup/100): at the
\* cap itself the instruction is submitted, above it the operation fails with
\* MarkupExceeded and submits nothing.
C4_MarkupBoundaryInclusive ==
    ListFetchedResalable =>
        IF WithinCap(args.newPrice, lst.ticketData)
        THEN ListPassedLocalCheck
        ELSE pc = "failed" /\ result.kind = "MarkupExceeded" /\ calls.list = 0

C4_Witness ==
    /\ ListFetchedResalable
    /\ args.newPrice * 100
         = lst.ticketData.originalPrice * (100 + lst.ticketData.maxMarkup) * SubUnits
    /\ calls.list = 1
    /\ lst.submitted = BNLamports(args.newPrice)

\* C5: the local check lets a list operation through exactly when the
\* program's integer markup rule accepts the integer price the client submits.
C5_PrecheckMirrorsProgram ==
    ListFetchedResalable =>
        (ListPassedLocalCheck <=>
            BNLamports(args.newPrice) <= ProgramMaxPrice(lst.ticketData))

\* C6: when the fetched record does not allow resale, the list operation
\* fails with ResaleNotAllowed whatever the price, above the cap included,
\* and submits no listTicket instruction.
C6_ResaleGate ==
    (op = "list" /\ lst.ticketData.exists /\ ~lst.ticketData.resaleAllowed) =>
        pc = "failed" /\ result.kind = "ResaleNotAllowed" /\ calls.list = 0

C6_Witness ==
    /\ op = "list" /\ lst.ticketData.exists /\ ~lst.ticketData.resaleAllowed
    /\ ~WithinCap(args.newPrice, lst.ticketData)
    /\ pc = "failed" /\ result.kind = "ResaleNotAllowed"

\* C7: an upload call, of the image or of the metadata, goes on while fewer
\* than 3 requests have failed; it fails with UploadFailed after exactly 3,
\* carrying the response payload of the third request when that request had
\* one and the message of its error otherwise.
C7_UploadRetryExhaustion ==
    /\ pc \in {"upload_image", "upload_meta"} => up.requests < 3
    /\ (pc = "failed" /\ result.kind = "UploadFailed") =>
          /\ up.requests = 3
          /\ result.what \in {"image", "metadata"}
          /\ result.msg[3] = 3
          /\ result.msg[1] = IF result.msg[2] = "payload" THEN "response.data"
                                                         ELSE "message"

C7_Witness ==
    /\ pc = "failed" /\ result.kind = "UploadFailed" /\ result.what = "metadata"
    /\ up.requests = 3
    /\ result.msg = <<"response.data", "payload", 3>>

\* C8: in an issuance run a metadata upload is requested only once the image
\* upload has returned a URI, and the document uploaded names that URI; when
\* the image upload fails no metadata request, no mint call and no
\* createTicket instruction are made.
C8_SequentialDependency ==
    op = "issue" =>
        /\ (pc = "upload_meta" \/ "metadata" \in did) =>
              up.imageUri # NoUri /\ up.metadata.image = up.imageUri
        /\ up.imageUri = NoUri =>
              "metadata" \notin did /\ calls.mint = 0 /\ calls.create = 0
        /\ (pc = "failed" /\ result.kind = "UploadFailed" /\ result.what = "image") =>
              up.imageUri = NoUri

C8_Witness ==
    /\ op = "issue" /\ pc = "failed"
    /\ result.kind = "UploadFailed" /\ result.what = "image"
    /\ "metadata" \notin did /\ calls.mint = 0 /\ calls.create = 0

\* C9: when the balance read gives less than the minimum and RPC_URL is not a
\* localnet, ensureSufficientBalance asks for no airdrop and fails with
\* InsufficientFunds, which carries the balance read (rendered to four
\* decimals) and the minimum.
C9_InsufficientFundsNoFundingPath ==
    (op = "issue" /\ bal.lamports # NoAmount /\ bal.lamports < MinBalanceLamports
        /\ RPC_URL \notin {LocalUrl}) =>
        /\ pc = "failed"
        /\ result = [kind |-> "InsufficientFunds", current |-> ToFixed4(bal.lamports),
                     required |-> MinBalanceLamports]
        /\ bal.airdrops = 0
        /\ "airdrop" \notin did

C9_Witness ==
    /\ op = "issue" /\ pc = "failed" /\ RPC_URL = MainnetUrl
    /\ result.kind = "InsufficientFunds"
    /\ bal.lamports = MinBalanceLamports - 40000
    /\ result.current = 500
    /\ bal.airdrops = 0

\* C10: ensureSufficientBalance returns to its caller only when the wallet
\* holds at least the minimum.
C10_EnsureBalancePostcondition ==
    bal.returned => balance >= MinBalanceLamports

\* C11: createRobustConnection fails with NetworkExhausted exactly when every
\* endpoint of the list has failed all maxRetries probes, never while some
\* candidate has been probed fewer times; it ends with a live connection or
\* with this failure; the error carries the error of the last probe made.
C11_RpcExhaustion ==
    /\ (result.kind = "NetworkExhausted" =>
          /\ pc = "failed"
          /\ conn.probes = Len(rpcEndpoints(RPC_URL)) * maxRetries
          /\ result.last = <<conn.endpoint, conn.attempt>>)
    /\ (pc = "connect" => conn.probes < Len(rpcEndpoints(RPC_URL)) * maxRetries)
    /\ ("probe" \in did /\ pc # "connect" =>
          conn.connection # None \/ result.kind = "NetworkExhausted")

\* the probes made so far by a connect in progress are maxRetries failed ones
\* for each endpoint before the current one, then the failed attempts on it
ProbedInOrder ==
    pc = "connect" =>
        /\ conn.endpoint \in 1..Len(rpcEndpoints(RPC_URL))
        /\ conn.attempt \in 1..maxRetries
        /\ conn.probes = (conn.endpoint - 1) * maxRetries + (conn.attempt - 1)
        /\ conn.connection = None

\* a successful probe returns the connection to the endpoint it probed, the
\* configured one when that is the first, and ends the probing
ReturnsProbedEndpoint ==
    pc = "connect" /\ conn'.connection # None =>
        /\ conn'.connection = rpcEndpoints(RPC_URL)[conn.endpoint]
        /\ conn.endpoint = 1 => conn'.connection = RPC_URL
        /\ pc' \notin {"connect", "failed"}

\* C12: endpoints are probed in list order, the configured one first;
\* endpoint k+1 is probed only after endpoint k failed maxRetries consecutive
\* probes; the connection returned is to the endpoint of the first successful
\* probe, and no probe is made after it.
C12_FailoverOrder ==
    /\ [](ProbedInOrder /\ (conn.connection # None => pc # "connect"))
    /\ [][ReturnsProbedEndpoint]_vars

C12_Witness ==
    /\ op = "issue" /\ pc = "balance_read"
    /\ conn.connection = Helius1Url

\* C13: when imagePath, name, description or price is absent the run fails
\* with MissingParameter, and in that run there is no liveness probe, balance
\* read, airdrop request, upload, write of last_mint.json, mint call or
\* createTicket instruction.
C13_ValidationFirst ==
    (op = "issue" /\ (args.imagePath = None \/ args.name = None
                        \/ args.description = None \/ args.price = 0)) =>
        /\ pc \in {"Validating", "failed"}
        /\ pc = "failed" => result = [kind |-> "MissingParameter"]
        /\ did = {}
        /\ calls = NoCalls
        /\ conn = NoConn /\ bal = NoBal /\ up = NoUp /\ mint = NoMint
        /\ reg[1] = NoReg

C13_Witness ==
    /\ op = "issue" /\ pc = "failed"
    /\ args.price = 0 /\ args.name # None
    /\ result.kind = "MissingParameter"

\* the stages of an issuance run, numbered in their order, with the two
\* uploads told apart
RankOf(p) ==
    CASE p = "Validating" -> 1
      [] p \in {"connect", "balance_read", "airdrop_request", "airdrop_blockhash",
                "airdrop_confirm", "airdrop_newbal"} -> 2
      [] p = "upload_image" -> 3
      [] p = "upload_meta" -> 4
      [] p = "mint_nft" -> 5
      [] p = "register" -> 6
      [] p = "done" -> 7
      [] OTHER -> 0

\* the stage in which the error e was raised
FailedRank(e) ==
    CASE e.kind = "MissingParameter" -> 1
      [] e.kind \in {"NetworkExhausted", "BalanceReadError", "InsufficientFunds"} -> 2
      [] e.kind \in {"ImageNotFound", "ConfigMissing"} -> 3
      [] e.kind = "UploadFailed" -> IF e.what = "image" THEN 3 ELSE 4
      [] e.kind = "MintingFailed" -> 5
      [] e.kind \in {"RpcError", "ProgramError"} -> 6
      [] OTHER -> 0

\* the stage an issuance run is in, or failed in
Rank == IF pc = "failed" THEN FailedRank(result) ELSE RankOf(pc)

\* the stages before the current one returned normally, and nothing of a later
\* stage has been asked of a remote party
StagesInOrder ==
    op = "issue" =>
        /\ Rank \in 1..7
        /\ pc # "failed" => result.kind \in {"none", "session"}
        /\ Rank >= 3 => conn.connection # None /\ bal.returned
        /\ Rank >= 4 => up.imageUri # NoUri /\ up.metadata # NoResult
        /\ Rank >= 5 => up.metadataUri # NoUri /\ mint # NoMint
        /\ Rank >= 6 => mint \in nfts /\ calls.mint = 1
        /\ Rank = 7 => /\ reg[1].pc = "returned"
                       /\ ledger[reg[1].ticketPda].exists
                       /\ result.kind = "session"
        /\ Rank <= 1 => did = {}
        /\ Rank <= 2 => did \subseteq {"probe", "balanceRead", "airdrop"}
        /\ Rank <= 3 => "metadata" \notin did
        /\ Rank <= 4 => "last_mint.json" \notin did /\ calls.mint = 0
        /\ Rank <= 5 => /\ "getAccountInfo" \notin did
                        /\ calls.create = 0
                        /\ reg[1].pc = "idle"
        /\ calls.list = 0

\* a step of an issuance run stays in its stage, enters the next one, or fails
StageStep ==
    (op = "issue" /\ op' = "issue" /\ opsStarted' = opsStarted) =>
        \/ pc' = "failed" /\ pc \notin {"done", "failed"}
        \/ RankOf(pc') = RankOf(pc)
        \/ RankOf(pc') = RankOf(pc) + 1

\* C14: an issuance run passes through Validating, FundingCheck, Uploading
\* (image, then metadata), Minting, Registering and Done in this order; a
\* stage starts only after the one before it returned normally, none is
\* entered twice, a failure ends the run as failed with no remote call of a
\* later stage made, and Done is reached only when every stage succeeded.
C14_StageOrdering ==
    /\ []StagesInOrder
    /\ [][StageStep]_vars

C14_Witness ==
    /\ op = "issue" /\ pc = "done"
    /\ {"probe", "balanceRead", "image", "metadata", "getAccountInfo"} \subseteq did
    /\ calls.mint = 1 /\ calls.create = 1

\* C15: an issuance run makes the mint call at most once; when it fails the
\* run is failed with the mint's error, createSmartContractTicket is not
\* entered and no createTicket instruction is submitted.
C15_MintNeverRetried ==
    op = "issue" =>
        /\ calls.mint <= 1
        /\ pc = "mint_nft" => calls.mint = 0
        /\ result.kind = "MintingFailed" =>
              /\ pc = "failed"
              /\ calls.mint = 1
              /\ result.mint = mint /\ mint \notin nfts
              /\ reg[1].pc = "idle"
              /\ "getAccountInfo" \notin did
              /\ calls.create = 0

C15_Witness ==
    /\ op = "issue" /\ pc = "failed"
    /\ result.kind = "MintingFailed"
    /\ calls.mint = 1

\* the records on the ledger that name the asset m
RecordsOf(m) == {a \in PDAs : ledger[a].exists /\ ledger[a].mint = m}

LastMinted == IF nfts = {} THEN NoMint ELSE CHOOSE m \in nfts : \A n \in nfts : n <= m

\* C17: between runs last_mint.json holds the identity of the asset minted
\* last, whatever the runs before came to; a run whose mint fails leaves it
\* as it was.
C17_LastIssuedPointer ==
    Idle => last_mint = LastMinted

\* C18: the value an issuance run returns when done holds the asset
\* identity, both URIs, the record address, both receipts and the
\* already-existed flag; when createSmartContractTicket found the record,
\* the flag is true and the registration receipt is absent.
C18_DoneReturnsSession ==
    (op = "issue" /\ pc = "done") =>
        /\ {"mintAddress", "imageUri", "metadataUri", "ticketPda", "nftSignature",
            "smartContractSignature", "alreadyExists"} \subseteq DOMAIN result
        /\ result.alreadyExists = reg[1].ret.alreadyExists
        /\ result.alreadyExists => result.smartContractSignature = NoUri

\* getTicketInfo asks the ledger for nothing but reads
InfoReadOnly ==
    (op = "info" /\ op' = "info") => UNCHANGED world

\* C19: getTicketInfo derives the record address and, when the reads go
\* through, fails with RecordNotFound if no account is there and otherwise
\* returns the stored values of the seven fields of the record; it submits no
\* instruction and leaves the ledger as it was.
C19_FetchReadOnlyTotal ==
    /\ [](op = "info" =>
            LET pda == InfoPda(args)
                t   == ledger[pda]
            IN /\ calls.mint = 0 /\ calls.create = 0 /\ calls.list = 0
               /\ did \subseteq {"probe", "getAccountInfo", "fetch"}
               /\ pc = "failed" =>
                     result.kind \in {"NetworkExhausted", "RpcError", "RecordNotFound"}
               /\ result.kind = "RecordNotFound" => ~t.exists /\ result.pda = pda
               /\ pc = "info_fetch" => t.exists
               /\ pc = "done" =>
                     /\ t.exists
                     /\ result.pda = pda
                     /\ result.owner = t.owner
                     /\ result.price = t.price * SubUnits
                     /\ result.originalPrice = t.originalPrice * SubUnits
                     /\ result.resaleAllowed = t.resaleAllowed
                     /\ result.maxMarkup = t.maxMarkup
                     /\ result.isListed = t.isListed
                     /\ result.mint = t.mint)
    /\ [][InfoReadOnly]_vars

C19_Witness ==
    /\ op = "info" /\ pc = "done"
    /\ result.mint = MINT_ADDRESS /\ result.owner = OWNER_PUBKEY
    /\ result.price > 0

\* a list operation failed before it submitted the instruction
ListFailedLocally ==
    op = "list" /\ pc = "failed" /\ result.kind \in {"ResaleNotAllowed", "MarkupExceeded"}

\* C20: after listTicketForResale succeeded, getTicketInfo of the record
\* returns price = newPrice and isListed = true with the other fields as they
\* were; after a list that failed on the client's own checks every field is
\* as it was.
C20_EffectOfList ==
    LET pda == getTicketPDA(wallet, args.mintAddress, PROGRAM_ID) IN
    /\ (op = "list" /\ pc = "done") =>
          TicketInfo(pda, ledger[pda]) =
              [TicketInfo(pda, lst.ticketData) EXCEPT !.price = args.newPrice,
                                                      !.isListed = TRUE]
    /\ ListFailedLocally => ledger[pda] = lst.ticketData /\ calls.list = 0
    /\ (op = "info" /\ pc = "done") =>
          result = TicketInfo(InfoPda(args), ledger[InfoPda(args)])

\* a later call of a derivation returns what the call before it returned
DeriveRepeats ==
    (result.kind = "pda" /\ result'.kind = "pda") =>
        result'.a = result.a /\ result'.b = result.b

ReportsCreated(i) ==
    reg[i].pc = "returned" /\ ~reg[i].ret.alreadyExists

\* a record, once written, is not written again
RecordsWrittenOnce ==
    \A a \in PDAs : ledger[a].exists => ledger'[a] = ledger[a]

\* C22: when two createSmartContractTicket invocations for the same wallet
\* and asset interleave, at most one of them has its createTicket confirmed,
\* the record at the derived address is written at most once and holds the
\* values of the confirmed createTicket, and an invocation whose createTicket
\* is rejected throws instead of reporting a record it created.
C22_RacingRegistration ==
    /\ [](op = "race" =>
            /\ reg[1].ticketPda = reg[2].ticketPda
            /\ ~(ReportsCreated(1) /\ ReportsCreated(2))
            /\ \A i \in RegIds :
                 /\ reg[i].creates <= 1
                 /\ ReportsCreated(i) =>
                       /\ ~reg[i].pre.exists
                       /\ ledger[reg[i].ticketPda] =
                             NewTicket(wallet, reg[i].price \div SubUnits,
                                       reg[i].resaleAllowed, reg[i].maxMarkup, reg[i].mint)
                 /\ reg[i].ret.kind = "ProgramError" =>
                       reg[i].pc = "thrown" /\ reg[i].ret.code = "AccountAlreadyInUse"
            /\ (ledger[reg[1].ticketPda].exists /\ ~reg[1].pre.exists) =>
                  \E i \in RegIds : ReportsCreated(i) /\ reg[i].creates = 1)
    /\ [][RecordsWrittenOnce]_vars

C22_Witness ==
    /\ op = "race" /\ pc = "done"
    /\ args.first # args.second
    /\ ~reg[1].found /\ ~reg[2].found
    /\ reg[1].pc = "thrown" /\ reg[1].ret.kind = "ProgramError"
    /\ ReportsCreated(2)

\* a failed upload attempt is followed by the next one of the same call, and
\* leaves the call without a URI
UploadRetryStep ==
    /\ (pc = "upload_image" /\ pc' = "upload_image") =>
          /\ up'.requests = up.requests + 1
          /\ up'.imageUri = NoUri /\ up'.cid = up.cid
    /\ (pc = "upload_meta" /\ pc' = "upload_meta") =>
          /\ up'.requests = up.requests + 1
          /\ up'.metadataUri = NoUri /\ up'.cid = up.cid /\ up'.imageUri = up.imageUri

\* C23: a response without a content identifier counts as a failed attempt
\* and is retried like a transport failure; an upload call returns with the
\* first of its at most three attempts that yields a content identifier and
\* asks nothing more of the storage service; the URI it returns is the
\* gateway URI of that content identifier, and it is the URI used afterwards.
C23_UploadSuccessPath ==
    /\ [](op = "issue" =>
            /\ pc \in {"upload_image", "upload_meta"} =>
                  up.requests < 3 /\ up.retries = 3 - up.requests
            /\ (result.kind = "UploadFailed" /\ result.msg[2] = "nocid") =>
                  result.msg = <<"message", "nocid", 3>> /\ up.requests = 3
            /\ pc = "upload_meta" =>
                  /\ up.cid \in Cids
                  /\ up.imageUri = <<"PINATA_GATEWAY", "ipfs", up.cid>>
                  /\ up.metadata.image = up.imageUri
                  /\ up.metadataUri = NoUri
            /\ pc \in {"mint_nft", "register", "done"} =>
                  /\ up.cid \in Cids
                  /\ up.metadataUri = <<"PINATA_GATEWAY", "ipfs", up.cid>>
                  /\ up.metadata.image = up.imageUri
                  /\ up.requests = 0
            /\ pc = "done" =>
                  result.imageUri = up.imageUri /\ result.metadataUri = up.metadataUri)
    /\ [][UploadRetryStep]_vars

C23_Witness ==
    /\ op = "issue" /\ pc = "upload_meta"
    /\ up.requests = 2
    /\ up.cid = "cidB" /\ up.imageUri = GatewayUrl("cidB")

\* the positions of ensureSufficientBalance after its airdrop request
AfterAirdropRequest == {"airdrop_blockhash", "airdrop_confirm", "airdrop_newbal"}

\* C24: one call of ensureSufficientBalance makes at most one airdrop
\* request; when the request, the steps that confirm it or the balance read
\* after it throw, the error is not thrown to the caller: the minimum check
\* follows and fails with InsufficientFunds.
C24_FundingFailureSwallowed ==
    op = "issue" =>
        /\ bal.airdrops <= 1
        /\ pc = "airdrop_request" => bal.airdrops = 0
        /\ pc \in AfterAirdropRequest => bal.airdrops = 1
        /\ bal.airdrops = 1 =>
              /\ bal.lamports # NoAmount /\ bal.lamports < MinBalanceLamports
              /\ pc \in AfterAirdropRequest \cup {"failed"}
              /\ pc = "failed" =>
                    result = [kind |-> "InsufficientFunds",
                              current |-> ToFixed4(bal.lamports),
                              required |-> MinBalanceLamports]

C24_Witness ==
    /\ op = "issue" /\ pc = "failed"
    /\ bal.airdrops = 1
    /\ balance >= MinBalanceLamports
    /\ result.kind = "InsufficientFunds"

\* C25: ensureSufficientBalance asks for an airdrop only when the balance
\* read is below the minimum and the active connection, on which the request
\* is sent, is a localnet; on an active connection that is none, no airdrop
\* is asked for.
C25_FundingGate ==
    op = "issue" =>
        /\ pc = "airdrop_request" =>
              bal.lamports < MinBalanceLamports /\ IsLocalnet(conn.connection)
        /\ ("airdrop" \in did /\ conn.connection # None) => IsLocalnet(conn.connection)

C27_CrossOperationAddress ==
    /\ (op = "list" /\ result.kind = "AccountNotFound") =>
          result.pda = RegisterPda(wallet, args.mintAddress)
    /\ (op = "info" /\ args.mintAddress \in Mints
          /\ result.kind \in {"RecordNotFound", "ticket"}) =>
          result.pda = RegisterPda(wallet, args.mintAddress)
    /\ (op = "info" /\ args.mintAddress \in Mints
          /\ ledger[RegisterPda(wallet, args.mintAddress)].exists) =>
          result.kind # "RecordNotFound"

\* C28: every ledger call of an issuance (balance read, airdrop request,
\* mint, existence probe, createTicket) is sent to the endpoint that
\* createRobustConnection returned; when RPC_URL failed its probes and a
\* fallback was returned, the mint is not sent to RPC_URL.
C28_SingleActiveEndpoint ==
    (op = "issue" /\ conn.connection # None) => calls.via \subseteq {conn.connection}

\* an issuance run is under way / has ended
IssueRunning == op = "issue" /\ pc \notin {"done", "failed"}
IssueEnded   == op = "issue" /\ pc \in {"done", "failed"}

\* the remote requests counted by the stage in progress and by the run
RequestsMade ==
    conn.probes + bal.reads + bal.airdrops + up.requests + calls.mint + calls.create

\* the bounds on probes, airdrop requests, uploads, mint and createTicket
CommonBounds ==
    /\ conn.probes <= Len(rpcEndpoints(RPC_URL)) * maxRetries
    /\ bal.airdrops <= 1
    /\ up.requests <= 3
    /\ calls.mint <= 1
    /\ calls.create <= 1

\* retries come one after another: a step makes at most one remote request
OneRequestPerStep == [][RequestsMade' <= RequestsMade + 1]_vars

\* C29: provided every remote call returns or throws, every issuance run
\* reaches done or failed, after at most 4 * 3 liveness probes, at most 3
\* balance reads in the retry loop and one more after an airdrop request, at
\* most 1 airdrop request, at most 3 requests per upload, at most 1 mint call
\* and at most 1 createTicket; a step makes at most one remote request.
C29_BoundedTermination ==
    /\ [](op = "issue" => CommonBounds /\ bal.reads <= 3 + bal.airdrops)
    /\ OneRequestPerStep
    /\ IssueRunning ~> IssueEnded

C29_Witness ==
    /\ IssueEnded
    /\ bal.reads = 4 /\ bal.airdrops = 1

\* C29 as stated: at most 3 balance reads in a run.
C29_ThreeBalanceReads ==
    /\ [](op = "issue" => CommonBounds /\ bal.reads <= 3)
    /\ IssueRunning ~> IssueEnded

====
